---- MODULE Spec2Model ----
(***************************************************************************)
(* A model of the xts-summary pipeline: the two command line front ends    *)
(* (summary_tool/cli.py and diff_tool/cli.py), the report renderer         *)
(* (diff_tool/html_report.py) and the merge of the rendered fragments.     *)
(*                                                                         *)
(* Text is modelled as a sequence of one-character strings, so that        *)
(* "contains a dot", str.replace, str.strip, Path.stem and the file-name   *)
(* formatting are computed as the code computes them.  A rendered document *)
(* is a sequence of markup tokens [k |-> kind, v |-> payload].             *)
(***************************************************************************)
EXTENDS Integers, Sequences, FiniteSets, TLC

\* ------------------------------------------------------------------------
\* Bounds of the model
\* ------------------------------------------------------------------------
\* longest list of tables handed to the renderer on one side (report runs)
MaxTables == 2
\* longest subdirectory list of a pipeline run
MaxSubs == 2

VARIABLES
    \* --- the command line and the world the run reads ---
    args,             \* tool, left, right, recursive, subdirs: the parsed arguments
    env,              \* tree: what lies beneath a directory root; ntab: tables per document
    \* --- the state of main() ---
    pc,               \* where main() is
    subdirs,          \* the subdirectory names still to be processed
    html_files,       \* single-source mode: the documents of the current subdirectory
    idx,              \* single-source mode: enumerate(html_files, start=1)
    left_path,        \* the resolved left location of the current subdirectory
    right_path,       \* the resolved right location ("" in single-source mode)
    generated_files,  \* the fragment paths handed to the merge step
    merge_idx,        \* the merge loop's position in generated_files
    combined_body,    \* the merge loop's accumulator
    final_html,       \* the merged document written to args.output (<<>>: not written)
    error,            \* the exception or exit that ended the run ("none": none)
    \* --- the output directories ---
    disk,             \* file -> content, for the files that exist
    denied,           \* files whose write_text raises PermissionError
    \* --- the renderer's calls ---
    left_tables,      \* the tables extracted from the left document (latest call)
    right_tables,     \* the tables extracted from the right document (latest call)
    left_dfs,         \* generate_report's left_dfs argument (latest call)
    right_dfs,        \* generate_report's right_dfs argument (latest call)
    report,           \* what generate_report computed and returned (latest call)
    calls,            \* every call of generate_report so far: <<sub, path handed to merge, report>>
    mode,             \* which development is running: "report" | "pipeline" | ...
    \* --- the remote searches, one call stack at a time ---
    web,              \* the remote link graph: per page, the probe's answer and the anchors
    stack,            \* the active calls of _search or _collect, innermost last
    requests,         \* every HTTP request made so far, in order
    visited_urls,     \* _collect's visited set
    results,          \* _collect's results, in the order they are appended
    search_found,     \* what the outermost _search returned
    status,           \* "idle" | "running" | "returned"
    \* --- a function applied to an argument ---
    fn_in,            \* the argument
    fn_out            \* <<value>> once the function is applied, <<>> before

pvars == <<args, env, pc, subdirs, html_files, idx, left_path, right_path,
           generated_files, merge_idx, combined_body, final_html, error,
           disk, denied, left_tables, right_tables, calls>>
rvars == <<left_dfs, right_dfs, report, mode>>
svars == <<web, stack, requests, visited_urls, results, search_found, status>>
fvars == <<fn_in, fn_out>>
vars == <<pvars, rvars, svars, fvars>>

\* a URL: the page it names, the number of "./" a relative self-link has
\* appended to it, and the document name ("" for a directory)
URL(page, rel, doc) == [page |-> page, rel |-> rel, doc |-> doc]
NoneURL == URL("None", 0, "")

\* no remote search is running, no function is being applied
IdleSearch ==
    /\ web = <<>> /\ stack = <<>> /\ requests = <<>> /\ visited_urls = {}
    /\ results = <<>> /\ search_found = NoneURL /\ status = "idle"
IdleFunction == fn_in = <<>> /\ fn_out = <<>>

\* ------------------------------------------------------------------------
\* Text
\* ------------------------------------------------------------------------
NBSP == "nbsp"       \* the one character U+00A0

\* str.isspace for the characters of the model
IsSpace(ch) == ch \in {" ", NBSP}

\* '.' in s
HasDot(s) == \E i \in DOMAIN s : s[i] = "."

\* s.startswith(p)
StartsWith(s, p) == Len(s) >= Len(p) /\ SubSeq(s, 1, Len(p)) = p

\* s.replace(old, ""): every non-overlapping occurrence, left to right
RECURSIVE Replace(_, _)
Replace(s, old) ==
    IF Len(s) < Len(old) \/ old = <<>> THEN s
    ELSE IF StartsWith(s, old) THEN Replace(SubSeq(s, Len(old) + 1, Len(s)), old)
    ELSE <<Head(s)>> \o Replace(Tail(s), old)

RECURSIVE LStrip(_)
LStrip(s) == IF s # <<>> /\ IsSpace(Head(s)) THEN LStrip(Tail(s)) ELSE s

RECURSIVE RStrip(_)
RStrip(s) ==
    IF s # <<>> /\ IsSpace(s[Len(s)]) THEN RStrip(SubSeq(s, 1, Len(s) - 1)) ELSE s

\* s.strip()
Strip(s) == RStrip(LStrip(s))

\* the literals of the module-name clean-up
ABI == <<"a", "r", "m", "e", "a", "b", "i", "-", "v", "7", "a">>
ABI_SPACE == ABI \o <<" ">>
ABI_NBSP == ABI \o <<NBSP>>

\* ------------------------------------------------------------------------
\* Tables.  A DataFrame is the sequence of its rows, a row is
\* <<test, result, details>>; row 1 carries the module name.
\* ------------------------------------------------------------------------
Foo == <<"F", "o", "o">>
X == <<"X">>
foo_bar_Test1 == <<"f", "o", "o", ".", "b", "a", "r", ".", "T", "e", "s", "t", "1">>
foo_bar_Test2 == <<"f", "o", "o", ".", "b", "a", "r", ".", "T", "e", "s", "t", "2">>
x_T1 == <<"x", ".", "T", "1">>
x_T2 == <<"x", ".", "T", "2">>
setup == <<"s", "e", "t", "u", "p">>
M_dot == <<"M", ".", "a">>

T_FooL == << <<Foo, "", "">>, <<foo_bar_Test1, "Pass", "">>, <<foo_bar_Test2, "Fail", "boom">> >>
T_FooR == << <<Foo, "", "">>, <<foo_bar_Test1, "Pass", "">>, <<foo_bar_Test2, "Pass", "">> >>
T_ArmX == << <<ABI_SPACE \o X, "", "">>, <<x_T1, "Pass", "">>, <<x_T2, "Fail", "e">> >>
T_X == << <<X, "", "">>, <<x_T1, "Fail", "e">>, <<setup, "Pass", "">> >>
T_Mdot == << <<M_dot, "", "">>, <<x_T2, "Pass", "">> >>
T_Empty == << >>

\* the tables a report run draws its arguments from
TableCatalog == {T_FooL, T_FooR, T_ArmX, T_X, T_Mdot, T_Empty}

RECURSIVE SeqsUpTo(_, _)
SeqsUpTo(S, n) ==
    IF n = 0 THEN {<<>>}
    ELSE LET shorter == SeqsUpTo(S, n - 1)
         IN  shorter \cup {Append(q, x) : q \in {r \in shorter : Len(r) = n - 1}, x \in S}

\* a first column that keeps the names of the failed rows only
FirstColumn_FailedOnly(df) == {df[i][1] : i \in {j \in DOMAIN df : df[j][2] = "Fail"}}

\* df.iloc[:, 0]
FirstColumn(df) == {df[i][1] : i \in DOMAIN df}

\* df.iloc[0, 0] of an empty frame raises IndexError
HasEmptyFrame(dfs) == \E k \in DOMAIN dfs : dfs[k] = <<>>

\* ------------------------------------------------------------------------
\* Locations and file names
\* ------------------------------------------------------------------------
\* A location string: the root argument it starts with and the path
\* segments appended to it.  The empty string is EmptyStr.
Loc(root, segs) == [root |-> root, segs |-> segs]
EmptyStr == Loc("", <<>>)

\* A file of the output directories
OutFile(dir, name) == [dir |-> dir, name |-> name]
TEMP_DIR == "tmp_diff_reports"          \* Path.cwd() / "tmp_diff_reports"
FALLBACK_DIR == "tmp/diff_output"       \* Path(tempfile.gettempdir()) / "diff_output"
DOT_HTML == <<".", "h", "t", "m", "l">>

\* the largest i with s[i] = ch, 0 when there is none (str.rfind, 1-based)
LastIndexOf(s, ch) ==
    LET hits == {i \in DOMAIN s : s[i] = ch}
    IN  IF hits = {} THEN 0 ELSE CHOOSE i \in hits : \A j \in hits : j <= i

\* PurePath.stem: the name without its last suffix
Stem(name) ==
    LET i == LastIndexOf(name, ".")
    IN  IF 1 < i /\ i < Len(name) THEN SubSeq(name, 1, i - 1) ELSE name

\* ------------------------------------------------------------------------
\* Titles, fingerprints and summary tables
\* ------------------------------------------------------------------------
\* s.split(sep) for a one-character separator
RECURSIVE Split(_, _)
Split(s, sep) ==
    IF \A i \in DOMAIN s : s[i] # sep THEN <<s>>
    ELSE LET k == CHOOSE i \in DOMAIN s : s[i] = sep /\ \A j \in 1..(i - 1) : s[j] # sep
         IN  <<SubSeq(s, 1, k - 1)>> \o Split(SubSeq(s, k + 1, Len(s)), sep)

IsDigit(ch) == ch \in {"0", "1", "2", "3", "4", "5", "6", "7", "8", "9"}

\* DigitPrefix, keeping one digit only
DigitPrefix_OneDigit(s) == IF s # <<>> /\ IsDigit(Head(s)) THEN <<Head(s)>> ELSE <<>>

\* the longest prefix of s made of digits
RECURSIVE DigitPrefix(_)
DigitPrefix(s) ==
    IF s # <<>> /\ IsDigit(Head(s)) THEN <<Head(s)>> \o DigitPrefix(Tail(s)) ELSE <<>>

\* re.search(r"(\d+)", s): the first run of digits, <<>> when there is none
RECURSIVE FirstDigits(_)
FirstDigits(s) ==
    IF s = <<>> THEN <<>>
    ELSE IF IsDigit(Head(s)) THEN DigitPrefix(s)
    ELSE FirstDigits(Tail(s))

\* None, where a str is expected: like "", it is false in a condition
None == <<>>

\* _extract_version(fingerprint)
_extract_version(fingerprint) ==
    IF fingerprint = <<>> THEN None
    ELSE LET parts == Split(fingerprint, "/")
         IN  IF Len(parts) < 5 THEN None
             ELSE LET candidate == Split(parts[5], ":")[1]
                  IN  FirstDigits(candidate)

SUITE_PLAN == <<"S", "u", "i", "t", "e", " ", "/", " ", "P", "l", "a", "n">>
CTS_LABEL == <<"C", "T", "S">>

\* a summary source: not given (None), given but unreadable or without a
\* summary table, or the key/value rows of its summary table
\* remote: an http(s) address; readable: pd.read_html finds a summary table
\* in what is loaded; raw: the markup holds a match of the summary pattern
FullSource(given, remote, readable, rows, raw) ==
    [given |-> given, remote |-> remote, readable |-> readable, rows |-> rows, raw |-> raw]
Source(given, readable, rows) == FullSource(given, FALSE, readable, rows, readable)
NoSource == Source(FALSE, FALSE, <<>>)
Unreadable == Source(TRUE, FALSE, <<>>)

\* str(row.iloc[k]) of a cell pd.read_html has read: a cell without text is
\* the missing value NaN, whose str is "nan"
NAN == <<"n", "a", "n">>
str_cell(cell) == IF cell = <<>> THEN NAN ELSE cell

\* _extract_suite_from_summary(source)
_extract_suite_from_summary(source) ==
    IF ~source.given \/ ~source.readable THEN None
    ELSE LET IsSuiteRow(row) == Strip(str_cell(row[1])) = SUITE_PLAN
             hits == SelectSeq(source.rows, IsSuiteRow)
         IN  IF hits = <<>> THEN None
             ELSE LET suite_cell == str_cell(hits[1][2])
                  IN  Strip(Split(suite_cell, "/")[1])

\* ------------------------------------------------------------------------
\* The renderer: html_report.generate_report
\* ------------------------------------------------------------------------
Tok(k, v) == [k |-> k, v |-> v]
CONTAINER_OPEN == Tok("container_open", <<>>)      \* <div class='container'>
COL_OPEN == Tok("col_open", <<>>)                  \* <div class='col'>
DIV_CLOSE == Tok("div_close", <<>>)                \* </div>
HEAD == Tok("head", <<>>)                          \* <!DOCTYPE html> ... <body>
BODY_HTML_CLOSE == Tok("body_html_close", <<>>)    \* </body></html>
HTML_HEADER == <<HEAD, CONTAINER_OPEN>>
HTML_FOOTER == <<DIV_CLOSE, BODY_HTML_CLOSE>>

\* one <tr>: the texts of its cells and their class attributes
Tr(cells, classes) == [cells |-> cells, classes |-> classes]

\* MODULE_ROW_TMPL.format(module=module_name)
MODULE_ROW_TMPL(module) == Tr(<<module>>, <<"module">>)
TEST_CELL == <<"T", "e", "s", "t">>
TABLE_HEADER == Tr(<<TEST_CELL, "Result", "Details">>, <<"th", "th", "th">>)

\* (list(row) + ["", "", ""])[:3]: the first column holds names, the others words
Pad3(row) ==
    <<IF Len(row) >= 1 THEN row[1] ELSE <<>>,
      IF Len(row) >= 2 THEN row[2] ELSE "",
      IF Len(row) >= 3 THEN row[3] ELSE "">>

\* result.strip().lower() == "fail", for the results of the model
IsFail(result) == result \in {"Fail", "fail", "FAIL"}

\* the <tr> elements of the rows after the module row (lines 73-86)
RECURSIVE TestTrs(_)
TestTrs(rows) ==
    IF rows = <<>> THEN <<>>
    ELSE LET row == Pad3(Head(rows))
             test == row[1]
             result == row[2]
             details == row[3]
             col_class == IF HasDot(test) THEN "testname" ELSE "module"
         IN  IF (test = TEST_CELL /\ result = "Result" /\ details = "Details")
                \/ Strip(test) = <<>>
             THEN TestTrs(Tail(rows))
             ELSE <<Tr(row, IF IsFail(result)
                            THEN <<col_class, "failed", "failuredetails">>
                            ELSE <<col_class, "", "">>)>>
                  \o TestTrs(Tail(rows))

\* _make_table(df): the table element of one DataFrame, cell texts unescaped
_make_table(df) ==
    IF df = <<>> THEN Tok("table", <<>>)
    ELSE Tok("table", <<MODULE_ROW_TMPL(df[1][1]), TABLE_HEADER>> \o TestTrs(Tail(df)))

\* set ^ set
SymDiff_OneSided(A, B) == A \ B
SymDiff(A, B) == (A \ B) \cup (B \ A)

\* whether a first-column value counts as a test name
IsTestName_Any(val) == TRUE
IsTestName(val) == HasDot(val)

\* name.replace('armeabi-v7a ', '').replace('armeabi-v7a<U+00A0>', '').strip()
CleanModuleName(name) == Strip(Replace(Replace(name, ABI_SPACE), ABI_NBSP))

\* the test names of one side (lines 251-252)
left_tests(dfs) ==
    {val \in UNION {FirstColumn(dfs[k]) : k \in DOMAIN dfs} : IsTestName(val)}

\* the module names the statistics compare (lines 257-258)
left_modules(dfs) == {dfs[k][1][1] : k \in DOMAIN dfs}

\* <h2>{title}</h2> if title else ""
TitleParts(title) == IF title = <<>> THEN <<>> ELSE <<Tok("h2", title)>>

RECURSIVE Tables(_)
Tables(dfs) == IF dfs = <<>> THEN <<>> ELSE <<_make_table(Head(dfs))>> \o Tables(Tail(dfs))

NoReport ==
    [err |-> "not_called", same_count |-> 0, diff_count |-> 0,
     same_modules |-> 0, degrade_modules |-> 0, degrade_module_names |-> {},
     left_version |-> None, right_version |-> None, suite_name |-> <<>>,
     diff_title |-> <<>>, left_summary |-> <<>>, right_summary |-> <<>>,
     html |-> <<>>, output_path |-> OutFile("", <<>>),
     final_path |-> OutFile("", <<>>)]

\* _make_summary_table(source): the summary table of the source, when it has one
_make_summary_table(source) ==
    IF source.given /\ source.readable
    THEN <<Tok("summary_table", source.rows)>> ELSE <<>>

\* lines 231-238: the raw match of the summary pattern in the text that
\* Path(source).read_text() gives; reading an http(s) address as a path fails
raw_summary(source) ==
    IF ~source.remote /\ source.raw THEN <<Tok("summary_raw", source.rows)>> ELSE <<>>

\* lines 229-238 (239-248 for the right side): the summary block
summary_block(source) ==
    LET parsed == IF source.given THEN _make_summary_table(source) ELSE <<>>
    IN  IF parsed = <<>> /\ source.given THEN raw_summary(source) ELSE parsed

VS == <<" ", "V", "s", " ", "v">>
DIFF == <<" ", "D", "i", "f", "f">>

\* generate_report(left_dfs, right_dfs, diff_dfs, left_title, right_title,
\* output_path, left_summary_source, right_summary_source): the statistics
\* it computes, the document it builds and where the document is written
\* when output_path is writable or not.
generate_report(ldfs, rdfs, left_title, right_title, output_path, left_summary_source, right_summary_source, writable) ==
    IF HasEmptyFrame(ldfs) \/ HasEmptyFrame(rdfs)
    THEN [NoReport EXCEPT !.err = "IndexError", !.output_path = output_path]
    ELSE
    LET lt == left_tests(ldfs)
        rt == left_tests(rdfs)
        lm == left_modules(ldfs)
        rm == left_modules(rdfs)
        same_modules == Cardinality(lm \cap rm)
        degrade_modules == Cardinality(SymDiff(lm, rm))
        degrade_module_names == {CleanModuleName(n) : n \in SymDiff(lm, rm)}
        left_summary == summary_block(left_summary_source)
        right_summary == summary_block(right_summary_source)
        left_version == _extract_version(left_title)
        right_version == _extract_version(right_title)
        left_suite == _extract_suite_from_summary(left_summary_source)
        right_suite == _extract_suite_from_summary(right_summary_source)
        suite_name == IF left_suite # <<>> THEN left_suite
                      ELSE IF right_suite # <<>> THEN right_suite
                      ELSE CTS_LABEL
        diff_title == IF left_version # <<>> /\ right_version # <<>>
                      THEN <<"v">> \o left_version \o VS \o right_version
                           \o <<" ">> \o suite_name \o DIFF
                      ELSE suite_name \o DIFF
        left_summary_combined ==
            Tok("summary", [divider |-> suite_name,
                            left_summary |-> left_summary,
                            cts_diff |-> diff_title,
                            chart |-> <<same_modules, degrade_modules>>,
                            degrade_list |-> degrade_module_names])
        right_summary_combined ==
            Tok("summary", [divider |-> suite_name,
                            left_summary |-> right_summary,
                            cts_diff |-> <<>>,
                            chart |-> <<>>, degrade_list |-> {}])
        parts ==
            HTML_HEADER
            \o <<COL_OPEN>> \o TitleParts(left_title)
            \o <<left_summary_combined>> \o Tables(ldfs) \o <<DIV_CLOSE>>
            \o <<COL_OPEN>> \o TitleParts(right_title)
            \o <<right_summary_combined>> \o Tables(rdfs) \o <<DIV_CLOSE>>
            \o HTML_FOOTER
        fallback_path == OutFile(FALLBACK_DIR, Stem(output_path.name) \o DOT_HTML)
    IN  [err |-> "none",
         same_count |-> Cardinality(lt \cap rt),
         diff_count |-> Cardinality(SymDiff(lt, rt)),
         same_modules |-> same_modules,
         degrade_modules |-> degrade_modules,
         degrade_module_names |-> degrade_module_names,
         left_version |-> left_version, right_version |-> right_version,
         suite_name |-> suite_name, diff_title |-> diff_title,
         left_summary |-> left_summary, right_summary |-> right_summary,
         html |-> parts,
         output_path |-> output_path,
         final_path |-> IF writable THEN output_path ELSE fallback_path]

\* ------------------------------------------------------------------------
\* Text: case, order, numbers
\* ------------------------------------------------------------------------
LOWERS == <<"a", "b", "c", "d", "e", "f", "g", "h", "i", "j", "k", "l", "m",
            "n", "o", "p", "q", "r", "s", "t", "u", "v", "w", "x", "y", "z">>
UPPERS == <<"A", "B", "C", "D", "E", "F", "G", "H", "I", "J", "K", "L", "M",
            "N", "O", "P", "Q", "R", "S", "T", "U", "V", "W", "X", "Y", "Z">>
DIGITS == <<"0", "1", "2", "3", "4", "5", "6", "7", "8", "9">>

\* the position of ch in seq, 0 when it is not there
IndexIn(seq, ch) ==
    IF \E i \in DOMAIN seq : seq[i] = ch
    THEN CHOOSE i \in DOMAIN seq : seq[i] = ch
    ELSE 0

LowerCh(ch) == LET i == IndexIn(UPPERS, ch) IN IF i = 0 THEN ch ELSE LOWERS[i]
UpperCh(ch) == LET i == IndexIn(LOWERS, ch) IN IF i = 0 THEN ch ELSE UPPERS[i]
IsCased(ch) == IndexIn(LOWERS, ch) # 0 \/ IndexIn(UPPERS, ch) # 0

RECURSIVE Lower(_)
Lower(s) == IF s = <<>> THEN <<>> ELSE <<LowerCh(Head(s))>> \o Lower(Tail(s))

RECURSIVE Upper(_)
Upper(s) == IF s = <<>> THEN <<>> ELSE <<UpperCh(Head(s))>> \o Upper(Tail(s))

\* str.title(): upper case after an uncased character, lower case after a cased one
RECURSIVE TitleFrom(_, _)
TitleFrom(s, prev_cased) ==
    IF s = <<>> THEN <<>>
    ELSE <<IF prev_cased THEN LowerCh(Head(s)) ELSE UpperCh(Head(s))>>
         \o TitleFrom(Tail(s), IsCased(Head(s)))
Title(s) == TitleFrom(s, FALSE)

\* s.endswith(p)
EndsWith(s, p) == Len(s) >= Len(p) /\ SubSeq(s, Len(s) - Len(p) + 1, Len(s)) = p

\* the characters of the model in code point order
CODE_ORDER == <<"-", ".", "/">> \o DIGITS \o UPPERS \o <<"_">> \o LOWERS
Code(ch) == IndexIn(CODE_ORDER, ch)

\* a < b for strings
RECURSIVE LessStr(_, _)
LessStr(a, b) ==
    IF a = <<>> THEN b # <<>>
    ELSE IF b = <<>> THEN FALSE
    ELSE IF Head(a) = Head(b) THEN LessStr(Tail(a), Tail(b))
    ELSE Code(Head(a)) < Code(Head(b))

\* "/".join(segs)
RECURSIVE JoinPath(_)
JoinPath(segs) ==
    IF segs = <<>> THEN <<>>
    ELSE IF Len(segs) = 1 THEN segs[1]
    ELSE segs[1] \o <<"/">> \o JoinPath(Tail(segs))

\* the location as the string it is: the root argument, then its segments
LocText(loc) ==
    (IF loc.root = "" THEN <<>> ELSE <<loc.root>>)
    \o (IF loc.segs = <<>> THEN <<>> ELSE <<"/">> \o JoinPath(loc.segs))

\* sorted(S) for a set of paths
RECURSIVE Sorted(_)
Sorted(S) ==
    IF S = {} THEN <<>>
    ELSE LET m == CHOOSE x \in S : \A y \in S \ {x} : LessStr(JoinPath(x), JoinPath(y))
         IN  <<m>> \o Sorted(S \ {m})

\* str(n) for n >= 0
RECURSIVE Digits(_)
Digits(n) == IF n < 10 THEN <<DIGITS[n + 1]>> ELSE Digits(n \div 10) \o <<DIGITS[(n % 10) + 1]>>

\* ------------------------------------------------------------------------
\* summary_tool/cli.py: _sub_variants, _candidate
\* ------------------------------------------------------------------------
\* _sub_variants without the else branch of lines 45-48
_sub_variants_NoAppended(name) ==
    LET case_forms(n) == {n, Lower(n), Upper(n), Title(n)}
    IN  {v \in case_forms(name) \cup case_forms(Replace(name, <<"_">>)) : v # <<>>}

\* the name variants of a subdirectory, a set (the list's order is the
\* iteration order of a Python set)
_sub_variants(name) ==
    LET case_forms(n) == {n, Lower(n), Upper(n), Title(n)}
        no_us == Replace(name, <<"_">>)
        with_us == name \o <<"_">>
        variants == case_forms(name)
                    \cup (IF \E i \in DOMAIN name : name[i] = "_"
                          THEN case_forms(no_us) ELSE case_forms(with_us))
    IN  {v \in variants : v # <<>>}

\* _candidate(base, sub_name): base/sub_name, or base/sub_name/ for a URL
_candidate(base, sub_name) == Loc(base.root, base.segs \o <<sub_name>>)

\* ------------------------------------------------------------------------
\* The world: two roots, each a remote directory, a local directory, a
\* local file or a path that does not exist
\* ------------------------------------------------------------------------
cts == <<"c", "t", "s">>
tv_ts == <<"t", "v", "_", "t", "s">>
tvts == <<"t", "v", "t", "s">>
CANON == <<"t", "e", "s", "t", "_", "r", "e", "s", "u", "l", "t", "_",
           "f", "a", "i", "l", "u", "r", "e", "s", "_",
           "s", "u", "i", "t", "e", ".", "h", "t", "m", "l">>

SubNames == {cts, tv_ts}            \* the names --subdirs is drawn from
DirOrder == <<cts, tvts, tv_ts>>    \* the directories a root may hold, in listing order
DirNames == {DirOrder[i] : i \in DOMAIN DirOrder}
\* beneath root/d: nothing at all | an empty directory | d/<canonical> |
\* d/<canonical> and d/d/<canonical>
Kinds == {"absent", "empty", "flat", "both"}
RootKinds == {"url", "dir", "file", "none"}

LeftTables == <<T_FooL, T_ArmX, T_Mdot>>
RightTables == <<T_FooR, T_X, T_Mdot>>

Kind(side) == IF side = "L" THEN args.left ELSE IF side = "R" THEN args.right ELSE "none"
HasTree(side) == Kind(side) \in {"url", "dir"}

Dirs(side) ==
    IF HasTree(side)
    THEN {<<>>} \cup {<<d>> : d \in {e \in DirNames : env.tree[e] # "absent"}}
               \cup {<<d, d>> : d \in {e \in DirNames : env.tree[e] = "both"}}
    ELSE {}

Files(side) ==
    IF HasTree(side)
    THEN {<<d, CANON>> : d \in {e \in DirNames : env.tree[e] \in {"flat", "both"}}}
         \cup {<<d, d, CANON>> : d \in {e \in DirNames : env.tree[e] = "both"}}
    ELSE IF Kind(side) = "file" THEN {<<>>} ELSE {}

\* arg.startswith(("http://", "https://")) / utils.is_url
is_url(loc) == Kind(loc.root) = "url"
\* Path(arg).is_dir()
is_dir(loc) == Kind(loc.root) = "dir" /\ loc.segs \in Dirs(loc.root)
\* the location holds a document that can be loaded
is_document(loc) == loc.segs \in Files(loc.root)

IsPrefix(p, s) == Len(p) <= Len(s) /\ SubSeq(s, 1, Len(p)) = p

\* search_root.rglob(pattern): the files beneath search_root whose name
\* matches, pattern being the canonical name or "*.html"
rglob(side, search_root, canonical_only) ==
    IF search_root \notin Dirs(side) THEN {}
    ELSE {f \in Files(side) :
            /\ IsPrefix(search_root, f) /\ Len(f) > Len(search_root)
            /\ IF canonical_only THEN f[Len(f)] = CANON
               ELSE EndsWith(f[Len(f)], DOT_HTML)}

\* the anchors of a remote directory listing, in document order
Listing(side, segs) ==
    LET here == IF segs \o <<CANON>> \in Files(side)
                THEN <<[name |-> CANON, isdir |-> FALSE]>> ELSE <<>>
        IsChild(d) == segs \o <<d>> \in Dirs(side)
        below == SelectSeq(DirOrder, IsChild)
    IN  here \o [i \in DOMAIN below |-> [name |-> below[i], isdir |-> TRUE]]

\* ------------------------------------------------------------------------
\* Resolution: main._resolve of both front ends
\* ------------------------------------------------------------------------
SEARCH_MAX_DEPTH == 3
COLLECT_MAX_DEPTH == 5
NoneLoc == Loc("None", <<>>)

\* what a call ends with: a returned value, or an exception
Ok(v) == [raised |-> "none", value |-> v]
Raised(e) == [raised |-> e, value |-> EmptyStr]

RECURSIVE _search(_, _, _)
RECURSIVE SearchLinks(_, _, _, _)
\* _search(url, depth): the canonical probe, then the first .html link of
\* the listing, then the directory links in order
_search(side, segs, depth) ==
    IF depth > SEARCH_MAX_DEPTH THEN NoneLoc
    ELSE IF segs \o <<CANON>> \in Files(side) THEN Loc(side, segs \o <<CANON>>)
    ELSE IF segs \notin Dirs(side) THEN NoneLoc
    ELSE LET links == Listing(side, segs)
             IsHtml(a) == ~a.isdir /\ EndsWith(Lower(a.name), DOT_HTML)
             IsDirLink(a) == a.isdir
             htmls == SelectSeq(links, IsHtml)
         IN  IF htmls # <<>> THEN Loc(side, segs \o <<htmls[1].name>>)
             ELSE SearchLinks(side, segs, SelectSeq(links, IsDirLink), depth)

SearchLinks(side, segs, links, depth) ==
    IF links = <<>> THEN NoneLoc
    ELSE LET found == _search(side, segs \o <<Head(links).name>>, depth + 1)
         IN  IF found # NoneLoc THEN found
             ELSE SearchLinks(side, segs, Tail(links), depth)

\* the URL branch shared by both front ends
resolve_url(arg) ==
    LET found_url == _search(arg.root, arg.segs, 0)
    IN  IF found_url # NoneLoc THEN found_url ELSE arg

\* the local search below search_root: the canonical name first, any
\* *.html next; rglob yields in directory order, so any match may be first
resolve_under(arg, search_root) ==
    LET canon == rglob(arg.root, search_root, TRUE)
        html == rglob(arg.root, search_root, FALSE)
    IN  IF canon # {} THEN {Loc(arg.root, f) : f \in canon}
        ELSE IF html # {} THEN {Loc(arg.root, f) : f \in html}
        ELSE {arg}

\* summary_tool main._resolve(arg, subdir): the values it may return
resolve_summary(arg, subdir) ==
    IF is_url(arg) THEN {Ok(resolve_url(arg))}
    ELSE IF is_dir(arg)
    THEN {Ok(r) : r \in resolve_under(arg, IF subdir # <<>> THEN arg.segs \o <<subdir>>
                                           ELSE arg.segs)}
    ELSE {Ok(arg)}

\* diff_tool main._resolve(arg): args.subdir is read for a local directory,
\* and the parser defines no such attribute
resolve_diff(arg) ==
    IF is_url(arg) THEN {Ok(resolve_url(arg))}
    ELSE IF is_dir(arg) THEN {Raised("AttributeError")}
    ELSE {Ok(arg)}

\* summary_tool main._resolve_with_all_variants(base, sub_name): the first
\* variant, in the set's order, that resolves to something else than its
\* candidate; else the plain name's resolution
_resolve_with_all_variants(base, sub_name) ==
    LET hits == UNION {{r \in resolve_summary(_candidate(base, v), v) :
                           r.value # _candidate(base, v)} : v \in _sub_variants(sub_name)}
    IN  IF hits # {} THEN hits
        ELSE resolve_summary(_candidate(base, sub_name), sub_name)

\* ------------------------------------------------------------------------
\* Single-source mode: the documents of one subdirectory
\* ------------------------------------------------------------------------
RECURSIVE _collect(_, _, _, _)
RECURSIVE CollectLinks(_, _, _, _, _)
\* _process_remote._collect(url, depth), with its visited set threaded through
_collect(side, segs, depth, visited) ==
    IF depth > COLLECT_MAX_DEPTH \/ segs \notin Dirs(side)
    THEN [results |-> {}, visited |-> visited]
    ELSE CollectLinks(side, segs, Listing(side, segs), depth, visited)

CollectLinks(side, segs, links, depth, visited) ==
    IF links = <<>> THEN [results |-> {}, visited |-> visited]
    ELSE LET a == Head(links)
             full == segs \o <<a.name>>
         IN  IF ~a.isdir /\ EndsWith(a.name, CANON)
             THEN LET rest == CollectLinks(side, segs, Tail(links), depth, visited)
                  IN  [results |-> {full} \cup rest.results, visited |-> rest.visited]
             ELSE IF a.isdir /\ full \notin visited
             THEN LET sub == _collect(side, full, depth + 1, visited \cup {full})
                      rest == CollectLinks(side, segs, Tail(links), depth, sub.visited)
                  IN  [results |-> sub.results \cup rest.results, visited |-> rest.visited]
             ELSE CollectLinks(side, segs, Tail(links), depth, visited)

\* _process_remote, lines 72-105: the html_files lists one subdirectory may get
remote_html_files(sub) ==
    LET found == {_collect("L", <<v>>, 0, {}).results : v \in _sub_variants(sub)} \ {{}}
    IN  IF found = {} THEN {<<>>} ELSE {Sorted(fs) : fs \in found}

\* _process_local, lines 138-156
local_html_files(sub) ==
    LET dirs == {v \in _sub_variants(sub) : is_dir(Loc("L", <<v>>))}
        files(v) == IF rglob("L", <<v>>, TRUE) # {} THEN rglob("L", <<v>>, TRUE)
                    ELSE rglob("L", <<v>>, FALSE)
    IN  IF dirs = {} THEN {<<>>} ELSE {Sorted(files(v)) : v \in dirs}

\* ------------------------------------------------------------------------
\* Extraction and comparison (extractor.py, comparer.py)
\* ------------------------------------------------------------------------
\* the tables every document of a side holds
WorldTables(side) ==
    IF side = "L" THEN SubSeq(LeftTables, 1, env.ntab["L"])
    ELSE SubSeq(RightTables, 1, env.ntab["R"])

\* extract_testdetails(location) -> (title, tables); ("", []) when the
\* location cannot be loaded
extract_testdetails(loc) ==
    IF is_document(loc) THEN [title |-> LocText(loc), tables |-> WorldTables(loc.root)]
    ELSE IF is_url(loc) /\ loc.segs \in Dirs(loc.root)
    THEN [title |-> LocText(loc), tables |-> <<>>]
    ELSE [title |-> <<>>, tables |-> <<>>]

\* the summary rows every document of a side holds
LeftSummary == << <<SUITE_PLAN, <<"C", "T", "S", " ", "/", " ", "c", "t", "s">>>> >>
RightSummary == << <<SUITE_PLAN, <<"G", "T", "S", " ", "/", " ", "g", "t", "s">>>> >>

\* what reading a location as a summary source gives: None stands for the
\* empty right path
summary_source(loc) ==
    IF loc = EmptyStr THEN NoSource
    ELSE IF is_document(loc)
    THEN Source(TRUE, TRUE, IF loc.root = "L" THEN LeftSummary ELSE RightSummary)
    ELSE Unreadable

\* _table_to_df(t)
_table_to_df(t) == t

\* the extractor on one rendered table element: the first row supplies the
\* module name, every row is padded to three columns
parse_table(table) == [i \in DOMAIN table.v |-> Pad3(table.v[i].cells)]
\* compare_tables(lt, rt) -> (left rows, right rows, diff rows)
compare_tables(lt, rt) == <<_table_to_df(lt), _table_to_df(rt), <<>>>>

Min(a, b) == IF a < b THEN a ELSE b

\* lines 538-548 of summary_tool (183-193 of diff_tool): the pairs by
\* position, then the extra tables of the longer side
paired_dfs(lts, rts) ==
    LET n == Min(Len(lts), Len(rts))
    IN  [left |-> [i \in 1..n |-> compare_tables(lts[i], rts[i])[1]]
                  \o SubSeq(lts, n + 1, Len(lts)),
         right |-> [i \in 1..n |-> compare_tables(lts[i], rts[i])[2]]
                   \o SubSeq(rts, n + 1, Len(rts))]

\* lines 447-461 of summary_tool, the direct selection: both lists start
\* as the full conversion of the extracted tables, and the pairs and
\* extras are appended to them
direct_dfs(lts, rts) ==
    [left |-> lts \o paired_dfs(lts, rts).left,
     right |-> rts \o paired_dfs(lts, rts).right]

\* ------------------------------------------------------------------------
\* Report runs: generate_report applied to table lists drawn from the catalog
\* ------------------------------------------------------------------------
REPORT_OUT == OutFile(TEMP_DIR, <<"c", "t", "s", "-", "d", "i", "f", "f">> \o DOT_HTML)

InitReport ==
    /\ mode = "report"
    /\ IdleSearch /\ IdleFunction
    /\ left_dfs \in SeqsUpTo(TableCatalog, MaxTables)
    /\ right_dfs \in SeqsUpTo(TableCatalog, MaxTables)
    /\ report = NoReport
    /\ args = [tool |-> "none", left |-> "none", right |-> "absent", recursive |-> FALSE,
               subdirs |-> <<>>]
    /\ env = [tree |-> [d \in {} |-> "absent"], ntab |-> [s \in {"L", "R"} |-> 0]]
    /\ pc = "idle" /\ subdirs = <<>> /\ html_files = <<>> /\ idx = 0
    /\ left_path = EmptyStr /\ right_path = EmptyStr
    /\ generated_files = <<>> /\ merge_idx = 0 /\ combined_body = <<>>
    /\ final_html = <<>> /\ error = "none"
    /\ disk = [f \in {} |-> <<>>] /\ denied = {}
    /\ left_tables = <<>> /\ right_tables = <<>> /\ calls = <<>>

\* one call generate_report(left_dfs, right_dfs, [], "", "", out_path, ...)
GenerateReport ==
    /\ mode = "report"
    /\ UNCHANGED <<svars, fvars>>
    /\ report.err = "not_called"
    /\ \E writable \in BOOLEAN :
          report' = generate_report(left_dfs, right_dfs, <<>>, <<>>,
                                    REPORT_OUT, NoSource, NoSource, writable)
    /\ UNCHANGED <<left_dfs, right_dfs, mode, pvars>>

NextReport == GenerateReport

SpecReport == InitReport /\ [][NextReport]_vars

\* ------------------------------------------------------------------------
\* Pipeline runs: main() of summary_tool and of diff_tool
\* ------------------------------------------------------------------------
\* most tables in a document of a pipeline run
MaxDocTables == 2

Tools == {"summary_tool", "diff_tool"}
Trees == [DirNames -> Kinds]
NoTree == [d \in DirNames |-> "absent"]
HasDocs(tree) == \E d \in DirNames : tree[d] \in {"flat", "both"}
\* the roots of the pipeline runs hold one spelling of a directory name
PipelineTrees == {t \in Trees : t[tv_ts] = "absent"}

\* the last path segment of the left argument (the direct selection's sub_name)
LEFT_BASENAME == <<"l", "e", "f", "t">>
DIFF_HTML == <<"-", "d", "i", "f", "f">> \o DOT_HTML

\* f"{sub}-diff.html", f"{sub}_{idx}.html", f"{sub_name}.html"
diff_name(sub) == sub \o DIFF_HTML
part_name(sub, i) == sub \o <<"_">> \o Digits(i) \o DOT_HTML
plain_name(sub) == sub \o DOT_HTML

\* a fragment left in tmp_diff_reports by an earlier run
STALE_HTML == HTML_HEADER \o <<COL_OPEN, Tok("stale", <<>>), DIV_CLOSE>> \o HTML_FOOTER
EmptyDisk == [f \in {} |-> <<>>]
StaleDisk == [f \in {OutFile(TEMP_DIR, diff_name(cts))} |-> STALE_HTML]

\* write_text(content) to file f
Write(d, f, content) == [g \in DOMAIN d \cup {f} |-> IF g = f THEN content ELSE d[g]]

\* whether a side can hold a loadable document at all
CanHoldDocs(kind, tree) == kind = "file" \/ (kind \in {"url", "dir"} /\ HasDocs(tree))

InitPipeline ==
    /\ mode = "pipeline"
    /\ IdleSearch /\ IdleFunction
    /\ args \in {a \in [tool : Tools, left : RootKinds, right : RootKinds \cup {"absent"},
                        recursive : BOOLEAN, subdirs : SeqsUpTo(SubNames, MaxSubs)] :
                    a.recursive => (a.tool = "summary_tool" /\ a.right = "absent")}
    /\ env \in {e \in [tree : PipelineTrees, ntab : [{"L", "R"} -> 0..MaxDocTables]] :
                    /\ (args.left \notin {"url", "dir"} /\ args.right \notin {"url", "dir"})
                          => e.tree = NoTree
                    /\ ~CanHoldDocs(args.left, e.tree) => e.ntab["L"] = 0
                    /\ ~CanHoldDocs(args.right, e.tree) => e.ntab["R"] = 0}
    /\ subdirs = args.subdirs
    /\ disk \in {EmptyDisk, StaleDisk}
    /\ denied = {}
    /\ pc = "start"
    /\ html_files = <<>> /\ idx = 0
    /\ left_path = EmptyStr /\ right_path = EmptyStr
    /\ generated_files = <<>> /\ merge_idx = 0 /\ combined_body = <<>>
    /\ final_html = <<>> /\ error = "none"
    /\ left_tables = <<>> /\ right_tables = <<>>
    /\ left_dfs = <<>> /\ right_dfs = <<>>
    /\ report = NoReport /\ calls = <<>>

single_mode == args.right = "absent"
LeftArg == Loc("L", <<>>)
RightArg == Loc("R", <<>>)

\* lines 490-492: the single-source block runs
recursive_block ==
    /\ args.tool = "summary_tool"
    /\ args.recursive \/ (single_mode /\ (is_dir(LeftArg) \/ is_url(LeftArg)))
    /\ single_mode

\* the outcome of output_path.write_text: decided once per file
write_outcomes(f) ==
    IF f \in denied THEN {FALSE}
    ELSE IF \E i \in DOMAIN calls : calls[i].report.final_path = f THEN {TRUE}
    ELSE BOOLEAN

\* one call of generate_report and the bookkeeping around it: the fragment is
\* written where the renderer could write it, and out_path is what main()
\* appends to generated_files
render(sub, lts, rts, dfs, ltitle, rtitle, out_path, lsrc, rsrc, writable, next_pc) ==
    LET rep == generate_report(dfs.left, dfs.right, ltitle, rtitle, out_path,
                               summary_source(lsrc), summary_source(rsrc), writable)
    IN  /\ left_tables' = lts /\ right_tables' = rts
        /\ left_dfs' = dfs.left /\ right_dfs' = dfs.right
        /\ report' = rep
        /\ IF rep.err # "none"
           THEN /\ error' = rep.err /\ pc' = "raised"
                /\ UNCHANGED <<disk, denied, generated_files, calls>>
           ELSE /\ disk' = Write(disk, rep.final_path, rep.html)
                /\ denied' = IF writable THEN denied ELSE denied \cup {out_path}
                /\ generated_files' = Append(generated_files, out_path)
                /\ calls' = Append(calls, [sub |-> sub, out_path |-> out_path,
                                           left_tables |-> lts, right_tables |-> rts,
                                           report |-> rep])
                /\ error' = error /\ pc' = next_pc

\* lines 429-437 of summary_tool (rmtree, mkdir), 157-161 of diff_tool (mkdir
\* only), and the choice of the processing path
Start ==
    /\ mode = "pipeline" /\ pc = "start"
    /\ UNCHANGED <<svars, fvars>>
    /\ disk' = IF args.tool = "summary_tool" THEN EmptyDisk ELSE disk
    /\ pc' = IF args.tool = "diff_tool" THEN "loop"
             ELSE IF subdirs = <<>> THEN "direct"
             ELSE IF recursive_block THEN (IF is_url(LeftArg) THEN "remote" ELSE "local")
             ELSE "loop"
    /\ UNCHANGED <<args, env, subdirs, html_files, idx, left_path, right_path,
                   generated_files, merge_idx, combined_body, final_html, error,
                   denied, left_tables, right_tables, calls, rvars>>

\* summary_tool lines 440-487: no subdirectory list, the arguments themselves
DirectSelection ==
    /\ mode = "pipeline" /\ pc = "direct"
    /\ UNCHANGED <<svars, fvars>>
    /\ \E l \in resolve_summary(LeftArg, <<>>),
          r \in (IF single_mode THEN {Ok(EmptyStr)} ELSE resolve_summary(RightArg, <<>>)) :
          LET left == extract_testdetails(l.value)
              right == extract_testdetails(r.value)
              two == r.value # EmptyStr
              out_path == OutFile(TEMP_DIR, IF two THEN diff_name(LEFT_BASENAME)
                                            ELSE plain_name(LEFT_BASENAME))
          IN  /\ left_path' = l.value /\ right_path' = r.value
              /\ \E writable \in write_outcomes(out_path) :
                    render(LEFT_BASENAME, left.tables, IF two THEN right.tables ELSE <<>>,
                           IF two THEN direct_dfs(left.tables, right.tables)
                           ELSE [left |-> left.tables, right |-> <<>>],
                           left.title, IF two THEN right.title ELSE <<>>,
                           out_path, l.value, r.value, writable, "loop")
    /\ UNCHANGED <<args, env, subdirs, html_files, idx, merge_idx, combined_body,
                   final_html, mode>>

\* _process_local, lines 136-156: find the subdirectory and its documents
_process_local ==
    /\ mode = "pipeline" /\ pc = "local" /\ subdirs # <<>>
    /\ UNCHANGED <<svars, fvars>>
    /\ \E files \in local_html_files(Head(subdirs)) :
          IF files = <<>>
          THEN /\ subdirs' = Tail(subdirs)
               /\ UNCHANGED <<html_files, idx, pc>>
          ELSE /\ html_files' = files /\ idx' = 1 /\ pc' = "document"
               /\ UNCHANGED subdirs
    /\ UNCHANGED <<args, env, left_path, right_path, generated_files, merge_idx,
                   combined_body, final_html, error, disk, denied, left_tables,
                   right_tables, calls, rvars>>

\* _process_remote, lines 70-109
_process_remote ==
    /\ mode = "pipeline" /\ pc = "remote" /\ subdirs # <<>>
    /\ UNCHANGED <<svars, fvars>>
    /\ \E files \in remote_html_files(Head(subdirs)) :
          IF files = <<>>
          THEN /\ subdirs' = Tail(subdirs)
               /\ UNCHANGED <<html_files, idx, pc>>
          ELSE /\ html_files' = files /\ idx' = 1 /\ pc' = "document"
               /\ UNCHANGED subdirs
    /\ UNCHANGED <<args, env, left_path, right_path, generated_files, merge_idx,
                   combined_body, final_html, error, disk, denied, left_tables,
                   right_tables, calls, rvars>>

\* lines 110-125 and 157-173: one document of the subdirectory
ProcessDocument ==
    /\ mode = "pipeline" /\ pc = "document"
    /\ UNCHANGED <<svars, fvars>>
    /\ LET sub == Head(subdirs)
           doc == Loc("L", html_files[idx])
           left == extract_testdetails(doc)
           out_path == OutFile(TEMP_DIR, part_name(sub, idx))
           last == idx = Len(html_files)
           back == IF is_url(LeftArg) THEN "remote" ELSE "local"
       IN  /\ left_path' = doc /\ right_path' = EmptyStr
           /\ \E writable \in write_outcomes(out_path) :
                 render(sub, left.tables, <<>>, [left |-> left.tables, right |-> <<>>],
                        left.title, <<>>, out_path, doc, EmptyStr, writable,
                        IF last THEN back ELSE "document")
           /\ idx' = IF last THEN 0 ELSE idx + 1
           /\ html_files' = IF last THEN <<>> ELSE html_files
           /\ subdirs' = IF last THEN Tail(subdirs) ELSE subdirs
    /\ UNCHANGED <<args, env, merge_idx, combined_body, final_html, mode>>

\* the per-subdirectory loop, lines 505-521 (164-168 of diff_tool)
ResolveSubdir ==
    /\ mode = "pipeline" /\ pc = "loop" /\ subdirs # <<>>
    /\ UNCHANGED <<svars, fvars>>
    /\ LET sub == Head(subdirs)
           resolve(base) == IF args.tool = "summary_tool"
                            THEN _resolve_with_all_variants(base, sub)
                            ELSE resolve_diff(_candidate(base, sub))
       IN  \E l \in resolve(LeftArg),
              r \in (IF single_mode THEN {Ok(EmptyStr)} ELSE resolve(RightArg)) :
              IF l.raised # "none" \/ r.raised # "none"
              THEN /\ error' = (IF l.raised # "none" THEN l.raised ELSE r.raised)
                   /\ pc' = "raised"
                   /\ UNCHANGED <<left_path, right_path>>
              ELSE /\ left_path' = l.value /\ right_path' = r.value
                   /\ pc' = "render"
                   /\ UNCHANGED error
    /\ UNCHANGED <<args, env, subdirs, html_files, idx, generated_files, merge_idx,
                   combined_body, final_html, disk, denied, left_tables,
                   right_tables, calls, rvars>>

\* lines 523-560 (170-205 of diff_tool): extract, pair, render, record
RenderSubdir ==
    /\ mode = "pipeline" /\ pc = "render"
    /\ UNCHANGED <<svars, fvars>>
    /\ LET sub == Head(subdirs)
           left == extract_testdetails(left_path)
           right == IF right_path # EmptyStr THEN extract_testdetails(right_path)
                    ELSE [title |-> <<>>, tables |-> <<>>]
           out_path == OutFile(TEMP_DIR, diff_name(sub))
       IN  \E writable \in write_outcomes(out_path) :
              render(sub, left.tables, right.tables,
                     paired_dfs(left.tables, right.tables),
                     left.title, right.title, out_path, left_path, right_path,
                     writable, "loop")
    /\ subdirs' = Tail(subdirs)
    /\ UNCHANGED <<args, env, html_files, idx, left_path, right_path, merge_idx,
                   combined_body, final_html, mode>>

\* lines 562-565 (208-210): nothing generated ends the run without output
MergeCheck ==
    /\ mode = "pipeline" /\ pc \in {"loop", "local", "remote"} /\ subdirs = <<>>
    /\ UNCHANGED <<svars, fvars>>
    /\ IF generated_files = <<>>
       THEN /\ pc' = "no_output"
            /\ error' = IF args.tool = "summary_tool" THEN "SystemExit" ELSE "none"
            /\ UNCHANGED merge_idx
       ELSE /\ pc' = "merge" /\ merge_idx' = 1 /\ UNCHANGED error
    /\ UNCHANGED <<args, env, subdirs, html_files, idx, left_path, right_path,
                   generated_files, combined_body, final_html, disk, denied,
                   left_tables, right_tables, calls, rvars>>

\* str.find / str.rfind on token sequences: 0 stands for Python's -1
Find(content, pat) ==
    LET hits == {i \in 1..(Len(content) - Len(pat) + 1) :
                    SubSeq(content, i, i + Len(pat) - 1) = pat}
    IN  IF hits = {} THEN 0 ELSE CHOOSE i \in hits : \A j \in hits : i <= j
RFind(content, pat) ==
    LET hits == {i \in 1..(Len(content) - Len(pat) + 1) :
                    SubSeq(content, i, i + Len(pat) - 1) = pat}
    IN  IF hits = {} THEN 0 ELSE CHOOSE i \in hits : \A j \in hits : j <= i

\* lines 598-604: what one fragment contributes to the merged body
container_of(content) ==
    LET start == Find(content, <<CONTAINER_OPEN>>)
        end == RFind(content, HTML_FOOTER)
    IN  IF start # 0 /\ end # 0 THEN SubSeq(content, start, end - 1) ELSE content

\* HTML_HEADER.split("<div class='container'>")[0]
header_no_container == SubSeq(HTML_HEADER, 1, Find(HTML_HEADER, <<CONTAINER_OPEN>>) - 1)
footer_snippet == <<BODY_HTML_CLOSE>>

\* the files the merge loop reads, in its order (lines 593-595)
merge_order(files) == files

\* lines 593-604: one iteration of the merge loop
MergeRead ==
    /\ mode = "pipeline" /\ pc = "merge" /\ merge_idx <= Len(generated_files)
    /\ UNCHANGED <<svars, fvars>>
    /\ LET file == merge_order(generated_files)[merge_idx]
       IN  IF file \in DOMAIN disk
           THEN /\ combined_body' = combined_body \o container_of(disk[file])
                /\ merge_idx' = merge_idx + 1
                /\ UNCHANGED <<pc, error>>
           ELSE /\ error' = "FileNotFoundError" /\ pc' = "raised"
                /\ UNCHANGED <<combined_body, merge_idx>>
    /\ UNCHANGED <<args, env, subdirs, html_files, idx, left_path, right_path,
                   generated_files, final_html, disk, denied, left_tables,
                   right_tables, calls, rvars>>

\* lines 605-611: the merged document is written
WriteFinal ==
    /\ mode = "pipeline" /\ pc = "merge" /\ merge_idx > Len(generated_files)
    /\ UNCHANGED <<svars, fvars>>
    /\ final_html' = header_no_container \o combined_body \o footer_snippet
    /\ pc' = "done"
    /\ UNCHANGED <<args, env, subdirs, html_files, idx, left_path, right_path,
                   generated_files, merge_idx, combined_body, error, disk, denied,
                   left_tables, right_tables, calls, rvars>>

Init == InitPipeline

Next ==
    \/ Start
    \/ DirectSelection
    \/ _process_local
    \/ _process_remote
    \/ ProcessDocument
    \/ ResolveSubdir
    \/ RenderSubdir
    \/ MergeCheck
    \/ MergeRead
    \/ WriteFinal

Spec == Init /\ [][Next]_vars

\* ------------------------------------------------------------------------
\* The remote searches, call by call, on a link graph: main._resolve._search
\* and _process_remote._collect.  A page is a remote directory; an anchor of
\* its listing is a document link, an absolute link to a page's directory,
\* or the relative self-link "./".
\* ------------------------------------------------------------------------
\* most anchors in one directory listing
MaxLinks == 2

Pages == {"p0", "p1"}
Link(kind, to) == [kind |-> kind, to |-> to]
PLAIN == Link("html", "plain.html")        \* a document without the marker
MARKED == Link("html", "marked.html")      \* a document whose body holds 'testdetails'
CANON_LINK == Link("html", "test_result_failures_suite.html")
SELF_LINK == Link("dir", "./")
DirLinks == {Link("dir", p) : p \in Pages} \cup {SELF_LINK}

\* "testdetails" in page_resp.text
HasMarker(doc) == doc \in {MARKED.to, CANON_LINK.to}

\* href.lower().endswith(".html") / href.endswith("/")
IsHtmlLink(a) == a.kind = "html"
IsDirLink(a) == a.kind = "dir"
\* href.endswith("test_result_failures_suite.html")
IsCanonLink(a) == a = CANON_LINK

\* href if href.startswith("http") else url.rstrip("/") + "/" + href.lstrip("/")
full_url(url, a) ==
    IF a.kind = "html" THEN URL(url.page, url.rel, a.to)
    ELSE IF a = SELF_LINK THEN URL(url.page, url.rel + 1, "")
    ELSE URL(a.to, 0, "")

\* url.rstrip("/") + "/test_result_failures_suite.html"
cand_url(url) == URL(url.page, url.rel, CANON_LINK.to)

\* if depth > 3: return None  /  if depth > 5: return []
TooDeep_OffByOne(depth, limit) == depth > limit + 1
TooDeep(depth, limit) == depth > limit

Frame(url, depth, phase, i) == [url |-> url, depth |-> depth, phase |-> phase, i |-> i]
Request(op, url, depth) == [op |-> op, url |-> url, depth |-> depth]
Top == stack[Len(stack)]
SetTop(f) == [stack EXCEPT ![Len(stack)] = f]
Anchors(url) == web.links[url.page]

Webs(alphabet) ==
    [probe : [Pages -> BOOLEAN], links : [Pages -> SeqsUpTo(alphabet, MaxLinks)]]

IdleMain ==
    /\ pc = "idle" /\ subdirs = <<>> /\ html_files = <<>> /\ idx = 0
    /\ left_path = EmptyStr /\ right_path = EmptyStr
    /\ generated_files = <<>> /\ merge_idx = 0 /\ combined_body = <<>>
    /\ final_html = <<>> /\ error = "none"
    /\ disk = [f \in {} |-> <<>>] /\ denied = {}
    /\ left_tables = <<>> /\ right_tables = <<>> /\ calls = <<>>
    /\ left_dfs = <<>> /\ right_dfs = <<>> /\ report = NoReport

IdlePipeline ==
    /\ args = [tool |-> "none", left |-> "none", right |-> "absent", recursive |-> FALSE,
               subdirs |-> <<>>]
    /\ env = [tree |-> [d \in {} |-> "absent"], ntab |-> [s \in {"L", "R"} |-> 0]]
    /\ IdleMain

\* found_url = _search(arg)  /  _collect(sub_url), about to be called
InitSearch ==
    /\ mode \in {"search", "collect"}
    /\ web \in (IF mode = "search" THEN Webs({PLAIN, MARKED} \cup DirLinks)
                ELSE {w \in Webs({PLAIN, CANON_LINK} \cup DirLinks) :
                         \A p \in Pages : ~w.probe[p]})
    /\ stack = <<Frame(URL("p0", 0, ""), 0, "enter", 1)>>
    /\ requests = <<>> /\ visited_urls = {} /\ results = <<>>
    /\ search_found = NoneURL /\ status = "running"
    /\ IdlePipeline /\ IdleFunction

\* a _search whose caller goes on to its next link whatever was returned
SearchReturn_OneLevel(v) ==
    IF Len(stack) = 1
    THEN /\ stack' = <<>> /\ search_found' = v /\ status' = "returned"
    ELSE /\ stack' = [SubSeq(stack, 1, Len(stack) - 1) EXCEPT
                        ![Len(stack) - 1].i = stack[Len(stack) - 1].i + 1]
         /\ UNCHANGED <<search_found, status>>

\* `return v` of the innermost _search: a found URL is handed up through
\* every caller (if found: return found); None sends the caller to its next link
SearchReturn(v) ==
    IF v # NoneURL \/ Len(stack) = 1
    THEN /\ stack' = <<>> /\ search_found' = v /\ status' = "returned"
    ELSE /\ stack' = [SubSeq(stack, 1, Len(stack) - 1) EXCEPT
                        ![Len(stack) - 1].i = stack[Len(stack) - 1].i + 1]
         /\ UNCHANGED <<search_found, status>>

\* lines 357-366: the depth check and the canonical probe
SearchProbe ==
    /\ mode = "search" /\ status = "running" /\ Top.phase = "enter"
    /\ IF TooDeep(Top.depth, SEARCH_MAX_DEPTH)
       THEN SearchReturn(NoneURL) /\ UNCHANGED requests
       ELSE /\ requests' = Append(requests, Request("HEAD", cand_url(Top.url), Top.depth))
            /\ IF web.probe[Top.url.page]
               THEN SearchReturn(cand_url(Top.url))
               ELSE /\ stack' = SetTop([Top EXCEPT !.phase = "listing"])
                    /\ UNCHANGED <<search_found, status>>
    /\ UNCHANGED <<web, visited_urls, results, pvars, rvars, fvars>>

\* lines 368-391: the listing is fetched; the first .html anchor is fetched
\* and returned, with the marker or without it
SearchListing ==
    /\ mode = "search" /\ status = "running" /\ Top.phase = "listing"
    /\ LET htmls == SelectSeq(Anchors(Top.url), IsHtmlLink)
           listed == Append(requests, Request("GET", Top.url, Top.depth))
       IN  IF htmls # <<>>
           THEN /\ requests' = Append(listed, Request("GET", full_url(Top.url, htmls[1]),
                                                      Top.depth))
                /\ SearchReturn(full_url(Top.url, htmls[1]))
           ELSE /\ requests' = listed
                /\ stack' = SetTop([Top EXCEPT !.phase = "dirs", !.i = 1])
                /\ UNCHANGED <<search_found, status>>
    /\ UNCHANGED <<web, visited_urls, results, pvars, rvars, fvars>>

\* lines 392-406: the directory anchors, in order
SearchRecurse ==
    /\ mode = "search" /\ status = "running" /\ Top.phase = "dirs"
    /\ IF Top.i > Len(Anchors(Top.url))
       THEN SearchReturn(NoneURL)
       ELSE LET a == Anchors(Top.url)[Top.i]
            IN  /\ stack' = IF IsDirLink(a)
                            THEN Append(stack, Frame(full_url(Top.url, a), Top.depth + 1,
                                                     "enter", 1))
                            ELSE SetTop([Top EXCEPT !.i = Top.i + 1])
                /\ UNCHANGED <<search_found, status>>
    /\ UNCHANGED <<web, requests, visited_urls, results, pvars, rvars, fvars>>

\* `return results` of the innermost _collect
CollectReturn ==
    IF Len(stack) = 1
    THEN stack' = <<>> /\ status' = "returned"
    ELSE /\ stack' = [SubSeq(stack, 1, Len(stack) - 1) EXCEPT
                        ![Len(stack) - 1].i = stack[Len(stack) - 1].i + 1]
         /\ UNCHANGED status

\* lines 79-85: the depth check and the listing
CollectFetch ==
    /\ mode = "collect" /\ status = "running" /\ Top.phase = "enter"
    /\ IF TooDeep(Top.depth, COLLECT_MAX_DEPTH)
       THEN CollectReturn /\ UNCHANGED requests
       ELSE /\ requests' = Append(requests, Request("GET", Top.url, Top.depth))
            /\ stack' = SetTop([Top EXCEPT !.phase = "links", !.i = 1])
            /\ UNCHANGED status
    /\ UNCHANGED <<web, visited_urls, results, search_found, pvars, rvars, fvars>>

\* lines 86-97: one anchor of the listing
CollectLink ==
    /\ mode = "collect" /\ status = "running" /\ Top.phase = "links"
    /\ IF Top.i > Len(Anchors(Top.url))
       THEN CollectReturn /\ UNCHANGED <<visited_urls, results>>
       ELSE LET a == Anchors(Top.url)[Top.i]
                full == full_url(Top.url, a)
            IN  IF IsCanonLink(a)
                THEN /\ results' = Append(results, full)
                     /\ stack' = SetTop([Top EXCEPT !.i = Top.i + 1])
                     /\ UNCHANGED <<visited_urls, status>>
                ELSE IF IsDirLink(a) /\ full \notin visited_urls
                THEN /\ visited_urls' = visited_urls \cup {full}
                     /\ stack' = Append(stack, Frame(full, Top.depth + 1, "enter", 1))
                     /\ UNCHANGED <<results, status>>
                ELSE /\ stack' = SetTop([Top EXCEPT !.i = Top.i + 1])
                     /\ UNCHANGED <<visited_urls, results, status>>
    /\ UNCHANGED <<web, requests, search_found, pvars, rvars, fvars>>

NextSearch ==
    \/ SearchProbe
    \/ SearchListing
    \/ SearchRecurse
    \/ CollectFetch
    \/ CollectLink

SpecSearch == InitSearch /\ [][NextSearch]_vars
\* every call that can take a step takes it
SpecSearchFair == SpecSearch /\ WF_vars(NextSearch)

\* ------------------------------------------------------------------------
\* Banner runs: generate_report applied to titles and summary sources
\* ------------------------------------------------------------------------
\* longest text after the fourth '/' of a drawn fingerprint
MaxTail == 3
\* most rows of a drawn summary table
MaxRows == 2

\* k segments "1/" ahead of the drawn tail
RECURSIVE Segments(_)
Segments(k) == IF k = 0 THEN <<>> ELSE <<"1", "/">> \o Segments(k - 1)

Fingerprints ==
    {Segments(k) \o tail : k \in 0..4, tail \in SeqsUpTo({"7", "2", "a", ":", "/"}, MaxTail)}

FP_9 == <<"a", "/", "b", "/", "c", "/", "d", "/", "9">>
FP_NoDigit == <<"a", "/", "b", "/", "c", "/", "d", "/", "x">>

SummaryRows ==
    { <<SUITE_PLAN, <<"C", "T", "S", " ", "/", " ", "c", "t", "s">> >>,
      <<SUITE_PLAN, <<"G", "T", "S">> >>,
      <<SUITE_PLAN, <<"/", " ", "x">> >>,
      <<SUITE_PLAN, <<>> >>,
      << <<"P", "l", "a", "n">>, <<"V", "T", "S", " ", "/", " ", "v">> >> }

\* sources read_html finds no table in, with and without a raw match, and a
\* remote source it finds one in
SalvageSources ==
    {FullSource(TRUE, remote, FALSE, <<>>, raw) : remote \in BOOLEAN, raw \in BOOLEAN}
    \cup {FullSource(TRUE, TRUE, TRUE, << <<SUITE_PLAN, CTS_LABEL>> >>, TRUE)}

Sources ==
    {NoSource} \cup SalvageSources
    \cup {Source(TRUE, TRUE, rows) : rows \in SeqsUpTo(SummaryRows, MaxRows)}

\* <<left_title, right_title, left_summary_source, right_summary_source>>
BannerInputs ==
    {<<lt, rt, NoSource, NoSource>> : lt \in Fingerprints, rt \in {<<>>, FP_9, FP_NoDigit}}
    \cup {<<t[1], t[2], ls, rs>> : t \in {<<FP_9, FP_9>>, <<<<>>, <<>>>>},
                                   ls \in Sources, rs \in Sources}

InitBanner ==
    /\ mode = "banner"
    /\ IdleSearch
    /\ fn_in \in BannerInputs /\ fn_out = <<>>
    /\ IdlePipeline

\* one call generate_report(left_dfs, right_dfs, [], left_title, right_title,
\* out_path, left_summary_source, right_summary_source)
GenerateBanner ==
    /\ mode = "banner"
    /\ report.err = "not_called"
    /\ \E writable \in BOOLEAN :
          report' = generate_report(<<T_FooL>>, <<T_FooR>>, fn_in[1], fn_in[2],
                                    REPORT_OUT, fn_in[3], fn_in[4], writable)
    /\ UNCHANGED <<left_dfs, right_dfs, mode, pvars, svars, fvars>>

NextBanner == GenerateBanner

SpecBanner == InitBanner /\ [][NextBanner]_vars


\* ------------------------------------------------------------------------
\* Function runs: one function of the tools applied to drawn arguments
\* ------------------------------------------------------------------------
\* longest subdirectory name drawn
MaxNameLen == 4

SubdirNames == SeqsUpTo({"a", "B", "_", "1"}, MaxNameLen) \ {<<>>}

InitVariants ==
    /\ mode = "variants"
    /\ fn_in \in {<<name>> : name \in SubdirNames} /\ fn_out = <<>>
    /\ IdleSearch /\ IdlePipeline

\* variants = _sub_variants(sub)
ApplySubVariants ==
    /\ mode = "variants" /\ fn_out = <<>>
    /\ fn_out' = <<_sub_variants(fn_in[1])>>
    /\ UNCHANGED <<fn_in, pvars, rvars, svars>>

\* most rows after the module row of a drawn table
MaxTestRows == 2

B_T1 == <<"b", ".", "T", "1">>
TestRows ==
    { <<x_T1, "Pass", "">>, <<x_T1, "Fail", "e">>, <<B_T1, "Fail", "boom">>,
      <<setup, "Pass", "">>, <<TEST_CELL, "Result", "Details">>,
      <<<<>>, "Fail", "e">>, <<<<" ">>, "", "">> }

InitRoundTrip ==
    /\ mode = "roundtrip"
    /\ fn_in \in {<< <<<<X, "", "">>>> \o rows >> : rows \in SeqsUpTo(TestRows, MaxTestRows)}
    /\ fn_out = <<>>
    /\ IdleSearch /\ IdlePipeline

\* a table rendered by _make_table and read back by the extractor
ApplyRoundTrip ==
    /\ mode = "roundtrip" /\ fn_out = <<>>
    /\ fn_out' = <<parse_table(_make_table(fn_in[1]))>>
    /\ UNCHANGED <<fn_in, pvars, rvars, svars>>

\* most fragments in each of the two drawn lists
MaxFragments == 2

\* the merge with = in the place of += at lines 600-603
merge_body_LastOnly(contents) ==
    IF contents = <<>> THEN <<>> ELSE container_of(contents[Len(contents)])

\* lines 592-604: combined_body after the loop over the fragments' contents
RECURSIVE merge_body(_)
merge_body(contents) ==
    IF contents = <<>> THEN <<>>
    ELSE merge_body(SubSeq(contents, 1, Len(contents) - 1))
         \o container_of(contents[Len(contents)])

\* lines 586-605: the body and the document the merge builds
merge(contents) ==
    [combined_body |-> merge_body(contents),
     final_html |-> header_no_container \o merge_body(contents) \o footer_snippet]

\* contents of fragment files: two rendered reports, a file without the
\* container marker, and a report with text after its footer
FRAGMENT_A ==
    generate_report(<<T_FooL>>, <<T_FooR>>, <<>>, <<>>, REPORT_OUT, NoSource, NoSource, TRUE).html
FRAGMENT_B ==
    generate_report(<<T_X>>, <<>>, <<"x">>, <<>>, REPORT_OUT, NoSource, NoSource, TRUE).html
FRAGMENT_BARE == <<Tok("h2", <<"n">>)>>
FRAGMENT_TWICE == FRAGMENT_B \o <<Tok("h2", <<"t">>)>> \o HTML_FOOTER
FragmentLists == SeqsUpTo({1, 2, 3, 4}, MaxFragments)
Fragment(n) ==
    CASE n = 1 -> FRAGMENT_A [] n = 2 -> FRAGMENT_B [] n = 3 -> FRAGMENT_BARE
      [] n = 4 -> FRAGMENT_TWICE
Contents(list) == [i \in DOMAIN list |-> Fragment(list[i])]

InitMerge ==
    /\ mode = "merge"
    /\ fn_in \in {<<F, G>> : F \in FragmentLists, G \in FragmentLists}
    /\ fn_out = <<>>
    /\ IdleSearch /\ IdlePipeline

\* the merge of the fragments F ++ G
ApplyMerge ==
    /\ mode = "merge" /\ fn_out = <<>>
    /\ fn_out' = <<merge(Contents(fn_in[1] \o fn_in[2]))>>
    /\ UNCHANGED <<fn_in, pvars, rvars, svars>>

\* most pieces a drawn module name is made of
MaxPieces == 5

ARMEABI == <<"a", "r", "m", "e", "a", "b", "i", "-">>
V7A == <<"v", "7", "a">>
NamePieces == {ARMEABI, V7A \o <<" ">>, V7A \o <<NBSP>>, <<" ">>, X}

RECURSIVE Flatten(_)
Flatten(pieces) == IF pieces = <<>> THEN <<>> ELSE Head(pieces) \o Flatten(Tail(pieces))

InitClean ==
    /\ mode = "clean"
    /\ fn_in \in {<<Flatten(pieces)>> : pieces \in SeqsUpTo(NamePieces, MaxPieces)}
    /\ fn_out = <<>>
    /\ IdleSearch /\ IdlePipeline

\* the clean-up of lines 273-279 applied to a name, then to its own result
ApplyClean ==
    /\ mode = "clean" /\ Len(fn_out) < 2
    /\ fn_out' = Append(fn_out, CleanModuleName(IF fn_out = <<>> THEN fn_in[1]
                                                ELSE fn_out[Len(fn_out)]))
    /\ UNCHANGED <<fn_in, pvars, rvars, svars>>

InitResolve ==
    /\ mode = "resolve"
    /\ args \in [tool : {"summary_tool"}, left : {"url", "dir"}, right : {"absent"},
                  recursive : {FALSE}, subdirs : {<<>>}]
    /\ env \in [tree : Trees, ntab : [{"L", "R"} -> {0}]]
    /\ fn_in \in {<<sub>> : sub \in SubNames} /\ fn_out = <<>>
    /\ IdleSearch /\ IdleMain

\* left_path = _resolve_with_all_variants(args.left, sub)
ApplyResolve ==
    /\ mode = "resolve" /\ fn_out = <<>>
    /\ \E r \in _resolve_with_all_variants(LeftArg, fn_in[1]) : fn_out' = <<r>>
    /\ UNCHANGED <<fn_in, pvars, rvars, svars>>

InitFunctions == InitVariants \/ InitRoundTrip \/ InitMerge \/ InitClean \/ InitResolve

NextFunctions ==
    \/ ApplySubVariants
    \/ ApplyRoundTrip
    \/ ApplyMerge
    \/ ApplyClean
    \/ ApplyResolve

SpecFunctions == InitFunctions /\ [][NextFunctions]_vars


\* ------------------------------------------------------------------------
\* The claims
\* ------------------------------------------------------------------------
\* the candidate locations the resolve step of the loop starts from
Candidates(side) ==
    {Loc(side, <<v>>) : v \in UNION {_sub_variants(n) \cup {n} : n \in SubNames}}

\* C1: resolution never raises: for every root argument and subdirectory
\* name, in both front ends, the resolve step returns a value, and when no
\* document is found that value is the input it was given.
C1_ResolutionNeverRaises ==
    mode = "pipeline" =>
        /\ error # "AttributeError"
        /\ pc = "render" =>
              /\ is_document(left_path) \/ left_path \in Candidates("L")
              /\ right_path = EmptyStr \/ is_document(right_path)
                 \/ right_path \in Candidates("R")

\* the roots hold no resolvable document: empty directories or nothing
NoDocumentAnywhere ==
    /\ ~HasDocs(env.tree)
    /\ args.left \in {"dir", "none"} /\ args.right \in {"dir", "none"}

\* C2: with two roots under which no subdirectory has a resolvable document,
\* a two-source run raises nothing, produces one fragment per configured
\* subdirectory and writes the combined document (here: even when every
\* fragment write succeeds at its destination).
C2_EmptyRootsStillMerge ==
    (mode = "pipeline" /\ NoDocumentAnywhere /\ args.subdirs # <<>> /\ denied = {}) =>
        /\ pc \notin {"raised", "no_output"}
        /\ pc = "done" => /\ Len(generated_files) = Len(args.subdirs)
                          /\ final_html # <<>>

\* C3: no condition is fatal: in single-source mode too, with some or all
\* subdirectories missing or without a document, the run reaches the merge
\* step and writes the combined document; it never ends without output.
C3_NeverEndsWithoutOutput ==
    (mode = "pipeline" /\ args.tool = "summary_tool" /\ single_mode
        /\ args.subdirs # <<>> /\ denied = {}) =>
        pc \notin {"raised", "no_output"}

\* C4: positional pairing loses and duplicates nothing: in every two-source
\* path, for m extracted left tables and n extracted right tables the
\* renderer receives exactly m left tables and exactly n right tables.
C4_PairingKeepsEveryTableOnce ==
    (mode = "pipeline" /\ report.err = "none" /\ right_path # EmptyStr) =>
        /\ Len(left_dfs) = Len(left_tables)
        /\ Len(right_dfs) = Len(right_tables)

\* the first-column values of a table list that contain a dot
DottedNames(dfs) ==
    {n \in UNION {{dfs[k][i][1] : i \in DOMAIN dfs[k]} : k \in DOMAIN dfs} :
        \E j \in DOMAIN n : n[j] = "."}

\* C5: with L and R the first-column values containing '.', 'Same testnames'
\* is |L & R| and 'Degrade testnames' is |L xor R|, and swapping left and
\* right leaves both counts unchanged.
C5_TestNameCounts ==
    (mode = "report" /\ report.err = "none") =>
        LET L == DottedNames(left_dfs)
            R == DottedNames(right_dfs)
            swapped == generate_report(right_dfs, left_dfs, <<>>, <<>>,
                                       REPORT_OUT, NoSource, NoSource, TRUE)
        IN  /\ report.same_count = Cardinality({n \in L : n \in R})
            /\ report.diff_count = Cardinality(L \cup R) - Cardinality({n \in L : n \in R})
            /\ swapped.same_count = report.same_count
            /\ swapped.diff_count = report.diff_count

\* a report over two corpora that share names, differ in names both ways
\* and hold first-column values without a dot
C5_Witness ==
    /\ mode = "report" /\ report.err = "none"
    /\ DottedNames(left_dfs) \cap DottedNames(right_dfs) # {}
    /\ DottedNames(left_dfs) \ DottedNames(right_dfs) # {}
    /\ DottedNames(right_dfs) \ DottedNames(left_dfs) # {}
    /\ \E k \in DOMAIN left_dfs : ~HasDot(left_dfs[k][1][1])

\* the end-to-end example: module Foo, Test1 passes on both sides, Test2
\* fails on the left and passes on the right
C6_Example ==
    /\ mode = "report" /\ report.err = "none"
    /\ left_dfs = <<T_FooL>> /\ right_dfs = <<T_FooR>>

\* C6 as stated: the example reports sameTestNames = 1, divergentTestNames = 1.
C6_ResultFlipCountsAsDivergence ==
    C6_Example => (report.same_count = 1 /\ report.diff_count = 1)

\* C6, amended: the example reports sameTestNames = 2 and
\* divergentTestNames = 0: both test names are on both sides, and the
\* result of a row plays no part in the counts.
C6_ExampleCountsByName ==
    C6_Example => (report.same_count = 2 /\ report.diff_count = 0)

C6_Witness == C6_Example

\* C7: module statistics are computed on ABI-normalized names: the counts
\* are |N(L) & N(R)| and |N(L) xor N(R)|, N stripping the ABI prefix, so
\* that 'armeabi-v7a X' on one side and 'X' on the other is a same module.
C7_ModuleCountsNormalized ==
    (mode = "report" /\ report.err = "none") =>
        LET NL == {CleanModuleName(left_dfs[k][1][1]) : k \in DOMAIN left_dfs}
            NR == {CleanModuleName(right_dfs[k][1][1]) : k \in DOMAIN right_dfs}
        IN  /\ report.same_modules = Cardinality(NL \cap NR)
            /\ report.degrade_modules = Cardinality((NL \ NR) \cup (NR \ NL))

\* C8: after a permission failure the fragment is written to the fallback
\* path, and the merge step reads every fragment from the path where it was
\* written: every path handed to merge is a path the renderer returned.
C8_MergeReadsWhereWritten ==
    mode = "pipeline" =>
        \A i \in DOMAIN generated_files :
            generated_files[i] = calls[i].report.final_path

\* what a fragment holds between the shared header and the shared footer
Inner(html) == SubSeq(html, Len(HTML_HEADER) + 1, Len(html) - Len(HTML_FOOTER))

RECURSIVE InnerOfCalls(_)
InnerOfCalls(cs) ==
    IF cs = <<>> THEN <<>> ELSE Inner(Head(cs).report.html) \o InnerOfCalls(Tail(cs))

NotContainerOpen(t) == t.k # "container_open"
IsHead(t) == t.k = "head"
IsBodyHtmlClose(t) == t.k = "body_html_close"

\* C9: the merged document is the shared header once, then the content of
\* every generated fragment once, in the order of generation, then the
\* footer once.
C9_MergedInGenerationOrder ==
    (mode = "pipeline" /\ pc = "done") =>
        /\ Len(SelectSeq(final_html, IsHead)) = 1 /\ IsHead(final_html[1])
        /\ Len(SelectSeq(final_html, IsBodyHtmlClose)) = 1
        /\ IsBodyHtmlClose(final_html[Len(final_html)])
        /\ SelectSeq(SubSeq(final_html, 2, Len(final_html) - 1), NotContainerOpen)
              = InnerOfCalls(calls)

\* C10: within one run no two fragment writes target the same file.
C10_NoTwoWritesToOneFile ==
    mode = "pipeline" =>
        \A i, j \in DOMAIN calls :
            i # j => calls[i].report.final_path # calls[j].report.final_path

\* the canonical-named files beneath root/v, v a name variant of sub
CanonicalBeneath(side, sub) ==
    UNION {rglob(side, <<v>>, TRUE) : v \in _sub_variants(sub) \cup {sub}}

\* C11: two-source local resolution: for a local root and a subdirectory
\* name such that root/name (or a name variant) is a directory holding a
\* file named test_result_failures_suite.html at any depth, the resolved
\* location is a canonical-named file beneath that directory.
C11_LocalResolutionFindsCanonical ==
    (mode = "pipeline" /\ pc = "render" /\ ~single_mode) =>
        LET sub == Head(subdirs)
            resolved(side) == IF side = "L" THEN left_path ELSE right_path
        IN  \A side \in {"L", "R"} :
                (Kind(side) = "dir" /\ CanonicalBeneath(side, sub) # {}) =>
                    /\ resolved(side).root = side
                    /\ resolved(side).segs \in CanonicalBeneath(side, sub)

\* C12: remote preference order: after the canonical probe fails, if the
\* listing links to a .html document whose body holds 'testdetails', the
\* resolver returns such a document whatever its position among the .html
\* links; directory links are followed only when the listing has no .html
\* link.
C12_MarkedDocumentPreferred ==
    (mode = "search" /\ status = "returned" /\ ~web.probe["p0"]) =>
        LET links == web.links["p0"]
            htmls == SelectSeq(links, IsHtmlLink)
        IN  /\ (\E i \in DOMAIN htmls : HasMarker(htmls[i].to)) =>
                  /\ search_found.page = "p0" /\ search_found.rel = 0
                  /\ HasMarker(search_found.doc)
            /\ htmls # <<>> =>
                  \A k \in DOMAIN requests : requests[k].depth = 0

\* the positions of ch in s
Positions(s, ch) == {i \in DOMAIN s : s[i] = ch}

\* the text of s before its first ch, all of s when it has none
BeforeFirst(s, ch) ==
    LET at == Positions(s, ch)
    IN  IF at = {} THEN s ELSE SubSeq(s, 1, (CHOOSE i \in at : \A j \in at : i <= j) - 1)

\* the fifth '/'-separated segment of f, which has at least four '/'
FifthSegment(f) ==
    LET at == Positions(f, "/")
        fourth == CHOOSE i \in at : Cardinality({j \in at : j < i}) = 3
        rest == SubSeq(f, fourth + 1, Len(f))
    IN  BeforeFirst(rest, "/")

\* t[i..j] is a maximal run of digits and no digit stands before it
IsFirstRun(t, i, j) ==
    /\ i <= j
    /\ \A k \in i..j : IsDigit(t[k])
    /\ \A k \in 1..(i - 1) : ~IsDigit(t[k])
    /\ (j = Len(t) \/ ~IsDigit(t[j + 1]))

\* the version the fingerprint f stands for, <<>> when it stands for none
VersionOf(f) ==
    IF f = <<>> \/ Cardinality(Positions(f, "/")) < 4 THEN <<>>
    ELSE LET t == BeforeFirst(FifthSegment(f), ":")
         IN  IF \A k \in DOMAIN t : ~IsDigit(t[k]) THEN <<>>
             ELSE LET ij == CHOOSE ij \in (DOMAIN t) \X (DOMAIN t) : IsFirstRun(t, ij[1], ij[2])
                  IN  SubSeq(t, ij[1], ij[2])

BannerDone == mode = "banner" /\ report.err # "not_called"

\* C13: the version of a fingerprint is absent when the fingerprint is empty,
\* has fewer than five '/'-separated segments, or its fifth segment cut at the
\* first ':' holds no digit; otherwise it is the first maximal run of digits of
\* that cut segment.  The banner title starts with "v<left> Vs v<right>"
\* exactly when both versions are present.
C13_VersionDerivation ==
    BannerDone =>
        /\ report.left_version = VersionOf(fn_in[1])
        /\ report.right_version = VersionOf(fn_in[2])
        /\ (StartsWith(report.diff_title,
                       <<"v">> \o VersionOf(fn_in[1]) \o VS \o VersionOf(fn_in[2]))
              <=> (VersionOf(fn_in[1]) # <<>> /\ VersionOf(fn_in[2]) # <<>>))

\* a fingerprint whose fifth segment holds a letter, two digits, then a ':',
\* beside a right title with a version: the banner names both versions
C13_Witness ==
    /\ BannerDone
    /\ fn_in[1] = Segments(4) \o <<"7", "2", ":">>
    /\ fn_in[2] = FP_9
    /\ report.left_version = <<"7", "2">>
    /\ report.diff_title = <<"v", "7", "2">> \o VS \o <<"9", " ">> \o CTS_LABEL \o DIFF

\* the rows of the source whose key is exactly "Suite / Plan"
SuiteRows(source) ==
    IF source.given /\ source.readable
    THEN SelectSeq(source.rows, LAMBDA row : row[1] = SUITE_PLAN)
    ELSE <<>>

\* the label of a source that has one: the text before the first '/' of the
\* value of its first "Suite / Plan" row, as in "CTS / cts" -> "CTS"
LabelOf(source) == Strip(BeforeFirst(SuiteRows(source)[1][2], "/"))

\* C14: the suite label shown is the left source's label if the left source
\* has a "Suite / Plan" row, else the right source's if it has one, else
\* "CTS"; and deriving it raises nothing, whatever the sources are.
C14_SuiteLabel ==
    BannerDone =>
        /\ report.err = "none"
        /\ report.suite_name =
              IF SuiteRows(fn_in[3]) # <<>> THEN LabelOf(fn_in[3])
              ELSE IF SuiteRows(fn_in[4]) # <<>> THEN LabelOf(fn_in[4])
              ELSE CTS_LABEL

\* name with every underscore left out
WithoutUnderscores(name) == SelectSeq(name, LAMBDA ch : ch # "_")

HasUnderscore(name) == \E i \in DOMAIN name : name[i] = "_"

VariantsDone == mode = "variants" /\ fn_out # <<>>

\* C15 as stated: the variants of a name with an underscore include the
\* original, its lower and upper case forms and the form without underscores;
\* those of a name without one include the name with an underscore appended;
\* no variant is the empty string.
C15_VariantsAsStated ==
    VariantsDone =>
        LET name == fn_in[1]
            variants == fn_out[1]
        IN  /\ {name, Lower(name), Upper(name)} \subseteq variants
            /\ HasUnderscore(name) => WithoutUnderscores(name) \in variants
            /\ ~HasUnderscore(name) => (name \o <<"_">>) \in variants
            /\ <<>> \notin variants

\* C15: as above, the form without underscores (with its lower and upper
\* case forms) being among the variants whenever it is not the empty string.
C15_Variants ==
    VariantsDone =>
        LET name == fn_in[1]
            variants == fn_out[1]
            no_us == WithoutUnderscores(name)
            with_us == name \o <<"_">>
        IN  /\ {name, Lower(name), Upper(name)} \subseteq variants
            /\ (HasUnderscore(name) /\ no_us # <<>>) =>
                  {no_us, Lower(no_us), Upper(no_us)} \subseteq variants
            /\ ~HasUnderscore(name) =>
                  {with_us, Lower(with_us), Upper(with_us)} \subseteq variants
            /\ <<>> \notin variants

\* "a_B": the variants hold aB, ab and AB beside a_B, a_b and A_B
C15_Witness ==
    /\ VariantsDone
    /\ fn_in[1] = <<"a", "_", "B">>
    /\ {<<"a", "B">>, <<"a", "b">>, <<"A", "B">>, <<"a", "_", "b">>} \subseteq fn_out[1]

\* the (testName, result) pairs of the rows after the module row
Pairs(df) == {<<df[i][1], df[i][2]>> : i \in 2..Len(df)}

\* how many rows after the module row hold the pair
PairCount(df, pair) == Cardinality({i \in 2..Len(df) : <<df[i][1], df[i][2]>> = pair})

RoundTripDone == mode = "roundtrip" /\ fn_out # <<>>

\* the pair of the column-header row that rendering writes into every table
HEADER_PAIR == <<TEST_CELL, "Result">>

\* C16: rendering a table and parsing the rendered table again gives the
\* same set of (testName, result) pairs as the input rows after the module
\* row, the column-header row left aside: every input pair is there, and no
\* pair is there more often than in the input.
C16_RoundTrip ==
    RoundTripDone =>
        /\ Pairs(fn_out[1]) \ {HEADER_PAIR} = Pairs(fn_in[1]) \ {HEADER_PAIR}
        /\ \A pair \in Pairs(fn_out[1]) \ {HEADER_PAIR} :
              PairCount(fn_out[1], pair) <= PairCount(fn_in[1], pair)

MergeDone == mode = "merge" /\ fn_out # <<>>

\* the contributions of the fragments one after the other, first to last
RECURSIVE InnerContents(_)
InnerContents(contents) ==
    IF contents = <<>> THEN <<>>
    ELSE container_of(Head(contents)) \o InnerContents(Tail(contents))

\* C17: the body of the merge of F ++ G is the body of the merge of F
\* followed by the body of the merge of G; the merged document is one header,
\* then each fragment's content in the order of the list, then one footer.
C17_MergeComposes ==
    MergeDone =>
        LET F == Contents(fn_in[1])
            G == Contents(fn_in[2])
        IN  /\ fn_out[1].combined_body = merge(F).combined_body \o merge(G).combined_body
            /\ fn_out[1].final_html =
                  header_no_container \o InnerContents(F \o G) \o footer_snippet

\* F = [A, B], G = [B with text after its footer]: three fragments merged
C17_Witness ==
    /\ MergeDone
    /\ fn_in = << <<1, 2>>, <<4>> >>
    /\ fn_out[1].combined_body =
          container_of(FRAGMENT_A) \o container_of(FRAGMENT_B) \o container_of(FRAGMENT_TWICE)
    /\ Len(container_of(FRAGMENT_TWICE)) > Len(container_of(FRAGMENT_B))

\* C18: cleaning a module name that is already cleaned gives the same name:
\* normalize(normalize(n)) = normalize(n) for every module name n.
C18_CleanIdempotent ==
    (mode = "clean" /\ Len(fn_out) = 2) => fn_out[2] = fn_out[1]

\* the existence check request i made found the canonical document
ProbeSucceeded(i) == requests[i].op = "HEAD" /\ web.probe[requests[i].url.page]

\* C19: once the existence check for <directory>/test_result_failures_suite.html
\* succeeds at a directory the resolver visits, the search has returned that
\* URL and no request follows it: no listing and no linked document is
\* fetched for the directory.
C19_ProbeShortCircuit ==
    mode = "search" =>
        \A i \in DOMAIN requests :
            ProbeSucceeded(i) =>
                /\ i = Len(requests)
                /\ status = "returned" /\ stack = <<>>
                /\ search_found = requests[i].url

\* the probe fails at the root and succeeds at a directory below it
C19_Witness ==
    /\ mode = "search" /\ status = "returned"
    /\ Len(requests) >= 3
    /\ ProbeSucceeded(Len(requests))
    /\ requests[Len(requests)].depth >= 1
    /\ search_found = cand_url(URL("p1", 0, ""))

\* the depth limit of the search that runs
DepthLimit == IF mode = "search" THEN SEARCH_MAX_DEPTH ELSE COLLECT_MAX_DEPTH

\* C20: on every link graph, cycles and self-links included, the resolver's
\* search (limit 3) and the single-source collector (limit 5) return, and no
\* request is made for a directory below the depth limit.
C20_SearchesTerminate ==
    /\ <>(status = "returned")
    /\ [](\A i \in DOMAIN requests : requests[i].depth <= DepthLimit)

\* a directory whose only link is a link to itself: the search asks for it
\* at the depths 0 to 3, twice each, and returns without a document
C20_Witness ==
    /\ mode = "search" /\ status = "returned"
    /\ web.links["p0"] = <<Link("dir", "p0")>>
    /\ search_found = NoneURL
    /\ Len(requests) = 2 * (SEARCH_MAX_DEPTH + 1)
    /\ requests[Len(requests)].depth = SEARCH_MAX_DEPTH

\* request i fetches the listing of a directory
IsListing(i) == requests[i].op = "GET" /\ requests[i].url.doc = ""

\* C21: within one resolution or collection call no directory address is
\* listed more than once, the starting directory included.
C21_NoDirectoryListedTwice ==
    \A i, j \in DOMAIN requests :
        (i < j /\ IsListing(i) /\ IsListing(j)) => requests[i].url # requests[j].url

\* C22: resolution is deterministic: for one root, one subdirectory name
\* and one state of the root's contents, every run resolves to the same
\* location, the variants being tried in one fixed order.
C22_ResolutionDeterministic ==
    (mode = "resolve" /\ fn_out # <<>>) =>
        \A r \in _resolve_with_all_variants(LeftArg, fn_in[1]) : r = fn_out[1]

\* the table element of an empty table: <table class='testdetails'></table>
IsEmptyShell(tok) == tok.k = "table" /\ tok.v = <<>>

\* C23: a report whose left or right list holds an empty table is generated
\* without error, and the empty table is in the document as an empty shell.
C23_EmptyTableTolerated ==
    (mode = "report" /\ report.err # "not_called"
       /\ (HasEmptyFrame(left_dfs) \/ HasEmptyFrame(right_dfs))) =>
        /\ report.err = "none"
        /\ \E i \in DOMAIN report.html : IsEmptyShell(report.html[i])

\* what the chain structured parse, raw match, empty gives for a source
ChainOf(source) ==
    IF ~source.given THEN <<>>
    ELSE IF source.readable THEN <<Tok("summary_table", source.rows)>>
    ELSE IF source.raw THEN <<Tok("summary_raw", source.rows)>>
    ELSE <<>>

\* C24: for every summary source, local or remote, the summary block is the
\* structured parse's table when there is one, else the raw match of a
\* summary table in the markup when there is one, else empty; and the report
\* is generated without an exception.
C24_SummaryChain ==
    BannerDone =>
        /\ report.err = "none"
        /\ report.left_summary = ChainOf(fn_in[3])
        /\ report.right_summary = ChainOf(fn_in[4])

\* the tables with the result of every row after the module row set to res
\* and its details to det
WithResults(dfs, res, det) ==
    [k \in DOMAIN dfs |->
        [i \in DOMAIN dfs[k] |->
            IF i = 1 THEN dfs[k][i] ELSE <<dfs[k][i][1], res, det>>]]

\* C25: the same and divergent test-name counts depend on the test names
\* only: inputs that differ in the result or details of rows have the same
\* counts, so a result flip on a shared name is no divergence.
C25_CountsIgnoreResults ==
    (mode = "report" /\ report.err = "none") =>
        \A res \in {"Pass", "Fail"} :
            \A side \in {"L", "R", "LR"} :
                LET other == generate_report(
                                 IF side \in {"L", "LR"} THEN WithResults(left_dfs, res, "d")
                                 ELSE left_dfs,
                                 IF side \in {"R", "LR"} THEN WithResults(right_dfs, res, "d")
                                 ELSE right_dfs,
                                 <<>>, <<>>, REPORT_OUT, NoSource, NoSource, TRUE)
                IN  /\ other.same_count = report.same_count
                    /\ other.diff_count = report.diff_count

\* Foo with Test2 failed on the left and passed on the right, beside X with
\* a test the right side lacks: two shared names, one name on one side only
C25_Witness ==
    /\ mode = "report" /\ report.err = "none"
    /\ left_dfs = <<T_FooL, T_ArmX>> /\ right_dfs = <<T_FooR, T_X>>
    /\ report.same_count = 3 /\ report.diff_count = 1

\* how many <div> elements are open after the tokens of doc
RECURSIVE OpenDivs(_)
OpenDivs(doc) ==
    IF doc = <<>> THEN 0
    ELSE LET last == doc[Len(doc)]
             before == OpenDivs(SubSeq(doc, 1, Len(doc) - 1))
         IN  IF last.k \in {"container_open", "col_open"} THEN before + 1
             ELSE IF last.k = "div_close" THEN before - 1
             ELSE before

\* the fragments of the merge are all reports written by generate_report
RenderedOnly == \A i \in DOMAIN (fn_in[1] \o fn_in[2]) : (fn_in[1] \o fn_in[2])[i] \in {1, 2}

\* C26: in the merged document of N rendered fragments there are N container
\* openings, every container is closed before the next one opens, and no
\* <div> is open at the end of the body.
C26_ContainersBalanced ==
    (MergeDone /\ RenderedOnly) =>
        LET doc == fn_out[1].final_html
            opens == {i \in DOMAIN doc : doc[i].k = "container_open"}
        IN  /\ Cardinality(opens) = Len(fn_in[1]) + Len(fn_in[2])
            /\ \A i \in opens : OpenDivs(SubSeq(doc, 1, i - 1)) = 0
            /\ OpenDivs(doc) = 0

\* C27: in a rendered report the 'Degrade modules' listing holds as many
\* names as the reported degrade-module count, and the same and degrade
\* module counts sum to the number of distinct module names of both sides.
C27_ModuleListingMatchesCount ==
    (mode = "report" /\ report.err = "none") =>
        /\ Cardinality(report.degrade_module_names) = report.degrade_modules
        /\ report.same_modules + report.degrade_modules =
              Cardinality({left_dfs[k][1][1] : k \in DOMAIN left_dfs}
                          \cup {right_dfs[k][1][1] : k \in DOMAIN right_dfs})

====
